---- MODULE Spec2Model ----
(***************************************************************************)
(* A model of converter_nieuwe.py: convert_csv_to_parquet, the run of one  *)
(* conversion from a delimited text file to a directory of parquet files.  *)
(*                                                                         *)
(* A text is a sequence of one-character strings, so that the reader's     *)
(* missing-value detection and pd.to_numeric are computed on the           *)
(* characters.  A float is [tag |-> "float", mant, exp], the number        *)
(* mant * 10^exp in normal form (no trailing zero in mant), or "inf" with  *)
(* a sign, or the missing marker NaN.  A long file is a sequence of runs   *)
(* [x, n]: n consecutive copies of the line x.                             *)
(***************************************************************************)
EXTENDS Integers, Sequences, FiniteSets, TLC

(* ------------------------------ bounds -------------------------------- *)

\* the number of runs of lines in the source file, not counting the header
MaxLines == 2
\* the number of partitions dask cuts the file into
MaxParts == 2

(* ------------------------- program constants -------------------------- *)

sample_size == 1000

FillNumber == -9999

keep_columns ==
    << "gbifID", "species", "decimalLongitude", "decimalLatitude",
       "countryCode", "elevation", "datasetKey", "eventDate" >>

NumericColumns == << "decimalLongitude", "decimalLatitude", "elevation" >>

FilledTextColumns == {"species", "countryCode", "eventDate"}

Range(s) == {s[i] : i \in DOMAIN s}

KeepSet == Range(keep_columns)

NumericSet == Range(NumericColumns)

(* ------------------------------- values ------------------------------- *)

NaN == [tag |-> "nan"]

Text(s) == [tag |-> "text", s |-> s]

Inf(sign) == [tag |-> "inf", sign |-> sign]

RECURSIVE Normal(_, _)
Normal(mant, exp) ==
    IF mant = 0 THEN [tag |-> "float", mant |-> 0, exp |-> 0]
    ELSE IF mant % 10 = 0 THEN Normal(mant \div 10, exp + 1)
    ELSE [tag |-> "float", mant |-> mant, exp |-> exp]

Float(mant, exp) == Normal(mant, exp)

IsMissing(v) == v.tag = "nan"

(* ------------------------------ the texts ------------------------------ *)

T_empty == << >>
T_NA == << "N", "A" >>
T_nan == << "n", "a", "n" >>
T_null == << "n", "u", "l", "l" >>
T_12_5 == << "1", "2", ".", "5" >>
T_m3 == << "-", "3" >>
T_1e3 == << "1", "e", "3" >>
T_p07 == << " ", "+", ".", "7", "0", " " >>
T_unknown == << "u", "n", "k", "n", "o", "w", "n" >>
T_1c5 == << "1", ",", "5" >>
T_inf == << "i", "n", "f" >>
T_minf == << "-", "i", "n", "f" >>
T_Infinity == << "I", "n", "f", "i", "n", "i", "t", "y" >>
T_Aa == << "A", "a" >>
T_k == << "k" >>

(* pandas' default na_values, as far as the texts above reach them *)
NaValues == {T_empty, T_NA, T_nan, T_null,
             << "N", "a", "N" >>, << "N", "U", "L", "L" >>,
             << "N", "/", "A" >>, << "n", "/", "a" >>, << "#", "N", "/", "A" >>,
             << "-", "n", "a", "n" >>, << "-", "N", "a", "N" >>,
             << "<", "N", "A", ">" >>, << "N", "o", "n", "e" >>}

(* ----------------------------- pd.to_numeric --------------------------- *)

Digits == {"0", "1", "2", "3", "4", "5", "6", "7", "8", "9"}

DigitVal(c) ==
    CASE c = "0" -> 0 [] c = "1" -> 1 [] c = "2" -> 2 [] c = "3" -> 3
      [] c = "4" -> 4 [] c = "5" -> 5 [] c = "6" -> 6 [] c = "7" -> 7
      [] c = "8" -> 8 [] c = "9" -> 9

Lower(c) ==
    CASE c = "I" -> "i" [] c = "N" -> "n" [] c = "F" -> "f" [] c = "A" -> "a"
      [] c = "T" -> "t" [] c = "Y" -> "y" [] OTHER -> c

LowerText(s) == [i \in DOMAIN s |-> Lower(s[i])]

\* the index of the first character at or after i that is not in cs
RECURSIVE Skip(_, _, _)
Skip(s, i, cs) ==
    IF i <= Len(s) /\ s[i] \in cs THEN Skip(s, i + 1, cs) ELSE i

\* the value of the digits s[i..j-1], read after the digits that gave acc
RECURSIVE DigitsValue(_, _, _, _)
DigitsValue(s, i, j, acc) ==
    IF i >= j THEN acc ELSE DigitsValue(s, i + 1, j, 10 * acc + DigitVal(s[i]))

Signs == {"+", "-"}

SignAt(s, i) == IF i <= Len(s) /\ s[i] = "-" THEN -1 ELSE 1

AfterSign(s, i) == IF i <= Len(s) /\ s[i] \in Signs THEN i + 1 ELSE i

(* the decimal syntax of the C parser behind pd.to_numeric: blanks, a sign,
   digits, a point and digits, an exponent, blanks, and then the end *)
ParseDecimal(s) ==
    LET b == Skip(s, 1, {" "})
        sg == SignAt(s, b)
        i0 == AfterSign(s, b)
        i1 == Skip(s, i0, Digits)
        hasPt == i1 <= Len(s) /\ s[i1] = "."
        f0 == IF hasPt THEN i1 + 1 ELSE i1
        f1 == Skip(s, f0, Digits)
        nDigits == (i1 - i0) + (f1 - f0)
        mant == DigitsValue(s, f0, f1, DigitsValue(s, i0, i1, 0))
        hasE == f1 <= Len(s) /\ s[f1] \in {"e", "E"}
        e0 == AfterSign(s, f1 + 1)
        e1 == Skip(s, e0, Digits)
        expOk == hasE /\ e1 > e0
        ex == IF expOk THEN SignAt(s, f1 + 1) * DigitsValue(s, e0, e1, 0) ELSE 0
        t0 == IF expOk THEN e1 ELSE f1
        t1 == Skip(s, t0, {" "})
    IN  [ok |-> nDigits > 0 /\ t1 = Len(s) + 1,
         value |-> Float(sg * mant, ex - (f1 - f0))]

W_nan == << "n", "a", "n" >>
W_inf == << "i", "n", "f" >>
W_infinity == << "i", "n", "f", "i", "n", "i", "t", "y" >>

(* the words the parser accepts when the decimal syntax fails, in any case
   and with a sign *)
ParseWord(s) ==
    LET sg == SignAt(s, 1)
        i0 == AfterSign(s, 1)
        w == LowerText(SubSeq(s, i0, Len(s)))
    IN  IF w = W_nan THEN [ok |-> TRUE, value |-> NaN]
        ELSE IF w \in {W_inf, W_infinity} THEN [ok |-> TRUE, value |-> Inf(sg)]
        ELSE [ok |-> FALSE, value |-> NaN]

(* pd.to_numeric(v, errors='coerce') of one cell: a float is returned as it
   is, a text is parsed, and a text that does not parse becomes NaN *)
ToNumeric(v) ==
    IF v.tag # "text" THEN v
    ELSE IF ParseDecimal(v.s).ok THEN ParseDecimal(v.s).value
    ELSE IF ParseWord(v.s).ok THEN ParseWord(v.s).value
    ELSE NaN

(* --------------------------- the source file --------------------------- *)

\* a line of the file: its texts under the eight columns that are kept, or
\* bad: a line with too many fields, which on_bad_lines='skip' drops
Line(bad, cells) == [bad |-> bad, cells |-> cells]

Run(x, n) == [x |-> x, n |-> n]

RECURSIVE Count(_)
Count(runs) ==
    IF runs = << >> THEN 0 ELSE runs[1].n + Count(Tail(runs))

\* the lines next(f) can deliver: the header and every line after it
FileLines(e) == 1 + Count(e.lines)

(* --------------------------- the output files --------------------------- *)

\* dask names the file of the i-th partition part.<i-1>.parquet
PartName(i) == [stem |-> "part", idx |-> i - 1, ext |-> "parquet"]

OldName == [stem |-> "old", idx |-> 0, ext |-> "parquet"]

NotesName == [stem |-> "notes", idx |-> 0, ext |-> "txt"]

\* filename.endswith(".parquet")
IsParquet(name) == name.ext = "parquet"

\* what is left of a file whose write broke off
Truncated == [ok |-> FALSE, schema |-> << >>, data |-> << >>]

NoFiles == [f \in {} |-> Truncated]

Put(fs, name, file) ==
    [f \in DOMAIN fs \cup {name} |-> IF f = name THEN file ELSE fs[f]]

(* ------------------------------ the frame ------------------------------ *)

NoFrame == [columns |-> << >>, dtypes |-> << >>, parts |-> << >>]

\* the reader's cell for a text: the default na_values apply to every column
ReadCell(t) == IF t \in NaValues THEN NaN ELSE Text(t)

ReadRow(line) == [c \in KeepSet |-> ReadCell(line.cells[c])]

RECURSIVE ReadRuns(_)
ReadRuns(lines) ==
    IF lines = << >> THEN << >>
    ELSE IF lines[1].x.bad THEN ReadRuns(Tail(lines))
    ELSE << Run(ReadRow(lines[1].x), lines[1].n) >> \o ReadRuns(Tail(lines))

\* usecols keeps the named columns where the file has them
UseCols(header) == SelectSeq(header, LAMBDA c : c \in KeepSet)

\* the ways to cut a sequence into k consecutive blocks
RECURSIVE Splits(_, _)
Splits(s, k) ==
    IF k = 1 THEN {<< s >>}
    ELSE UNION {{<< SubSeq(s, 1, c) >> \o rest :
                    rest \in Splits(SubSeq(s, c + 1, Len(s)), k - 1)} :
                c \in 0 .. Len(s)}

RECURSIVE Flatten(_)
Flatten(parts) ==
    IF parts = << >> THEN << >> ELSE parts[1] \o Flatten(Tail(parts))

\* ddf.isnull().sum() for one column
RECURSIVE NullCount(_, _)
NullCount(runs, c) ==
    IF runs = << >> THEN 0
    ELSE (IF IsMissing(runs[1].x[c]) THEN runs[1].n ELSE 0)
         + NullCount(Tail(runs), c)

\* ddf[col].apply(pd.to_numeric, errors='coerce') for the three columns
CoerceRow(row) ==
    [c \in DOMAIN row |-> IF c \in NumericSet THEN ToNumeric(row[c]) ELSE row[c]]

CoerceFrame(d) ==
    [d EXCEPT !.parts = [i \in DOMAIN d.parts |->
                            [k \in DOMAIN d.parts[i] |->
                                Run(CoerceRow(d.parts[i][k].x), d.parts[i][k].n)]],
              !.dtypes = [c \in KeepSet |->
                            IF c \in NumericSet THEN "float64" ELSE "object"]]

\* as IsNullSum, but counted on the coerced frame
IsNullSum_afterCoercion(d) ==
    [c \in Range(d.columns) |-> NullCount(Flatten(CoerceFrame(d).parts), c)]

IsNullSum(d) == [c \in Range(d.columns) |-> NullCount(Flatten(d.parts), c)]

FillNa(v, fill) == IF IsMissing(v) THEN fill ELSE v

Unknown == Text(<< "U", "n", "k", "n", "o", "w", "n" >>)

\* as FillRow, but with one fill for every column that is not numeric
FillRow_everyColumn(row) ==
    [c \in DOMAIN row |->
        IF c \in NumericSet THEN FillNa(row[c], Float(FillNumber, 0))
        ELSE FillNa(row[c], Unknown)]

\* the fillna calls: -9999 for the three numeric columns, then the dict
FillRow(row) ==
    [c \in DOMAIN row |->
        IF c \in NumericSet THEN FillNa(row[c], Float(FillNumber, 0))
        ELSE IF c \in FilledTextColumns THEN FillNa(row[c], Unknown)
        ELSE row[c]]

FillFrame(d) ==
    [d EXCEPT !.parts = [i \in DOMAIN d.parts |->
                            [k \in DOMAIN d.parts[i] |->
                                Run(FillRow(d.parts[i][k].x), d.parts[i][k].n)]]]

Schema(d) == [k \in DOMAIN d.columns |-> << d.columns[k], d.dtypes[d.columns[k]] >>]

\* as FileOf, but with the rows of the whole frame in every file
FileOf_wholeFrame(d, i) ==
    [ok |-> TRUE, schema |-> Schema(d), data |-> Flatten(d.parts)]

\* the file to_parquet writes for partition i, without an index column
FileOf(d, i) == [ok |-> TRUE, schema |-> Schema(d), data |-> d.parts[i]]

\* as FilesOnWriteError, but with the part files removed again
FilesOnWriteError_rollback(fs, i, partial) ==
    [f \in {g \in DOMAIN fs : g.stem # "part"} |-> fs[f]]

\* the directory after the write of partition i broke off
FilesOnWriteError(fs, i, partial) ==
    IF partial THEN Put(fs, PartName(i), Truncated) ELSE fs

\* pq.read_table: the row count and the schema, or an error
ReadTable(file) ==
    IF file.ok THEN [error |-> FALSE, num_rows |-> Count(file.data), schema |-> file.schema]
    ELSE [error |-> TRUE, num_rows |-> 0, schema |-> << >>]

\* as Verdict, but without looking at the error
Verdict_alwaysValid(file) == "valid"

Verdict(file) == IF ReadTable(file).error THEN "invalid" ELSE "valid"

(* --------------------------- the environment --------------------------- *)

H_file ==
    << "eventDate", "extra", "gbifID", "elevation", "species", "decimalLatitude",
       "decimalLongitude", "countryCode", "datasetKey", "more" >>

H_short == SelectSeq(keep_columns, LAMBDA c : c # "species")

H_other == << "id", "name" >>

Headers == {keep_columns, H_file, H_short, H_other}

C_clean ==
    [c \in KeepSet |->
        CASE c = "decimalLongitude" -> T_12_5
          [] c = "decimalLatitude" -> T_m3
          [] c = "elevation" -> T_1e3
          [] c = "species" -> T_Aa
          [] OTHER -> T_k]

C_dirty ==
    [c \in KeepSet |->
        CASE c = "gbifID" -> T_empty
          [] c = "species" -> T_NA
          [] c = "decimalLongitude" -> T_inf
          [] c = "decimalLatitude" -> T_empty
          [] c = "countryCode" -> T_nan
          [] c = "elevation" -> T_unknown
          [] c = "datasetKey" -> T_null
          [] c = "eventDate" -> T_empty]

C_mixed ==
    [C_clean EXCEPT !["decimalLongitude"] = T_p07,
                    !["decimalLatitude"] = T_1c5,
                    !["elevation"] = T_Infinity,
                    !["eventDate"] = T_unknown]

SampleLines ==
    {Line(FALSE, C_clean), Line(FALSE, C_dirty), Line(FALSE, C_mixed),
     Line(TRUE, C_clean)}

\* one line, or as many as the sniffer's sample less the header and one more
RunLengths == {1, sample_size - 2}

RECURSIVE SeqsUpTo(_, _)
SeqsUpTo(S, n) ==
    IF n = 0 THEN {<< >>}
    ELSE SeqsUpTo(S, n - 1)
         \cup {Append(q, x) : q \in {r \in SeqsUpTo(S, n - 1) : Len(r) = n - 1}, x \in S}

\* runs of records of either length, and bad lines one at a time
LineRuns(lines) ==
    {r \in {Run(l, n) : l \in lines, n \in RunLengths} : r.x.bad => r.n = 1}

OldFile ==
    [ok |-> TRUE, schema |-> << << "gbifID", "object" >> >>,
     data |-> << Run([c \in {"gbifID"} |-> Text(T_k)], 1) >>]

StaleFiles == Put(Put(Put(NoFiles, OldName, Truncated), PartName(1), OldFile),
                  NotesName, Truncated)

Dirs ==
    {[exists |-> FALSE, creatable |-> TRUE, writable |-> TRUE, files |-> NoFiles],
     [exists |-> FALSE, creatable |-> FALSE, writable |-> FALSE, files |-> NoFiles],
     [exists |-> TRUE, creatable |-> TRUE, writable |-> TRUE, files |-> NoFiles],
     [exists |-> TRUE, creatable |-> TRUE, writable |-> TRUE, files |-> StaleFiles],
     [exists |-> TRUE, creatable |-> TRUE, writable |-> FALSE, files |-> NoFiles]}

(* -------------------------------- state -------------------------------- *)

VARIABLES
    env,             \* the source file and the output location before the run
    pc,              \* the position in convert_csv_to_parquet
    raised,          \* the exception that ended the run, "" when none
    delimiter,       \* detect_delimiter's result, "" before it
    dir_exists,      \* whether output_dir exists
    created,         \* whether this run created output_dir
    files,           \* the files of output_dir: name -> file
    ddf,             \* the dask frame
    read_ddf,        \* the frame as read_csv made it
    partition_info,  \* the row count of each partition, as printed
    missing_report,  \* the missing values per column before conversion
    written,         \* the partitions to_parquet has written
    emitted,         \* the names of the files this run wrote or began
    seen,            \* the names the current loop over os.listdir has passed
    reported,        \* the parquet file report: name -> rows and schema
    verdicts         \* the validation: name -> "valid" or "invalid"

vars == << env, pc, raised, delimiter, dir_exists, created, files, ddf, read_ddf,
           partition_info, missing_report, written, emitted, seen, reported,
           verdicts >>

Start(e) ==
    /\ env = e
    /\ pc = "detect"
    /\ raised = ""
    /\ delimiter = ""
    /\ dir_exists = e.dir.exists
    /\ created = FALSE
    /\ files = e.dir.files
    /\ ddf = NoFrame
    /\ read_ddf = NoFrame
    /\ partition_info = << >>
    /\ missing_report = << >>
    /\ written = {}
    /\ emitted = {}
    /\ seen = {}
    /\ reported = << >>
    /\ verdicts = << >>

Init ==
    \E readable \in BOOLEAN, sniffable \in BOOLEAN, header \in Headers,
       lines \in SeqsUpTo(LineRuns(SampleLines), MaxLines), dir \in Dirs :
        Start([readable |-> readable, sniffable |-> sniffable, header |-> header,
               lines |-> lines, dir |-> dir])

(* ------------------------------- the run ------------------------------- *)

Fail(exc) ==
    /\ pc' = "failed"
    /\ raised' = exc

\* as SampleShort, but one line short of the sample is accepted
SampleShort_offByOne(e) == FileLines(e) < sample_size - 1

\* [next(f) for _ in range(sample_size)] runs out of lines
SampleShort(e) == FileLines(e) < sample_size

\* detect_delimiter: open() raises
DetectOpenError ==
    /\ pc = "detect"
    /\ ~env.readable
    /\ Fail("OSError")
    /\ UNCHANGED << env, delimiter, dir_exists, created, files, ddf, read_ddf,
                    partition_info, missing_report, written, emitted, seen,
                    reported, verdicts >>

\* detect_delimiter: next(f) raises StopIteration, which nothing catches
DetectShort ==
    /\ pc = "detect"
    /\ env.readable
    /\ SampleShort(env)
    /\ Fail("StopIteration")
    /\ UNCHANGED << env, delimiter, dir_exists, created, files, ddf, read_ddf,
                    partition_info, missing_report, written, emitted, seen,
                    reported, verdicts >>

\* detect_delimiter: the sniffer finds no delimiter and raises csv.Error
DetectSniffError ==
    /\ pc = "detect"
    /\ env.readable
    /\ ~SampleShort(env)
    /\ ~env.sniffable
    /\ Fail("csv.Error")
    /\ UNCHANGED << env, delimiter, dir_exists, created, files, ddf, read_ddf,
                    partition_info, missing_report, written, emitted, seen,
                    reported, verdicts >>

DetectOk ==
    /\ pc = "detect"
    /\ env.readable
    /\ ~SampleShort(env)
    /\ env.sniffable
    /\ delimiter' = ","
    /\ pc' = "makedirs"
    /\ UNCHANGED << env, raised, dir_exists, created, files, ddf, read_ddf,
                    partition_info, missing_report, written, emitted, seen,
                    reported, verdicts >>

\* os.makedirs(output_dir, exist_ok=True)
MakeDirs ==
    /\ pc = "makedirs"
    /\ dir_exists \/ env.dir.creatable
    /\ dir_exists' = TRUE
    /\ created' = ~dir_exists
    /\ pc' = "read"
    /\ UNCHANGED << env, raised, delimiter, files, ddf, read_ddf, partition_info,
                    missing_report, written, emitted, seen, reported, verdicts >>

MakeDirsError ==
    /\ pc = "makedirs"
    /\ ~dir_exists
    /\ ~env.dir.creatable
    /\ Fail("OSError")
    /\ UNCHANGED << env, delimiter, dir_exists, created, files, ddf, read_ddf,
                    partition_info, missing_report, written, emitted, seen,
                    reported, verdicts >>

\* dd.read_csv raises when a column of usecols is not in the header; the
\* handler prints and calls sys.exit(1)
ReadCsvError ==
    /\ pc = "read"
    /\ ~(KeepSet \subseteq Range(env.header))
    /\ Fail("read")
    /\ UNCHANGED << env, delimiter, dir_exists, created, files, ddf, read_ddf,
                    partition_info, missing_report, written, emitted, seen,
                    reported, verdicts >>

\* dd.read_csv: the kept columns, all of dtype object, in blocks of the file
ReadCsv ==
    /\ pc = "read"
    /\ KeepSet \subseteq Range(env.header)
    /\ \E np \in 1 .. MaxParts :
        \E parts \in Splits(ReadRuns(env.lines), np) :
            ddf' = [columns |-> UseCols(env.header),
                    dtypes |-> [c \in KeepSet |-> "object"],
                    parts |-> parts]
    /\ read_ddf' = ddf'
    /\ pc' = "audit"
    /\ UNCHANGED << env, raised, delimiter, dir_exists, created, files,
                    partition_info, missing_report, written, emitted, seen,
                    reported, verdicts >>

\* the partition row counts and the missing values before conversion
Audit ==
    /\ pc = "audit"
    /\ partition_info' = [i \in DOMAIN ddf.parts |-> Count(ddf.parts[i])]
    /\ missing_report' = IsNullSum(ddf)
    /\ pc' = "coerce"
    /\ UNCHANGED << env, raised, delimiter, dir_exists, created, files, ddf,
                    read_ddf, written, emitted, seen, reported, verdicts >>

Coerce ==
    /\ pc = "coerce"
    /\ ddf' = CoerceFrame(ddf)
    /\ pc' = "fill"
    /\ UNCHANGED << env, raised, delimiter, dir_exists, created, files, read_ddf,
                    partition_info, missing_report, written, emitted, seen,
                    reported, verdicts >>

Fill ==
    /\ pc = "fill"
    /\ ddf' = FillFrame(ddf)
    /\ pc' = "write"
    /\ UNCHANGED << env, raised, delimiter, dir_exists, created, files, read_ddf,
                    partition_info, missing_report, written, emitted, seen,
                    reported, verdicts >>

Writable == created \/ env.dir.writable

\* to_parquet writes one partition; the partitions are written in any order
WritePartition(i) ==
    /\ pc = "write"
    /\ i \in DOMAIN ddf.parts \ written
    /\ Writable
    /\ files' = Put(files, PartName(i), FileOf(ddf, i))
    /\ written' = written \cup {i}
    /\ emitted' = emitted \cup {PartName(i)}
    /\ UNCHANGED << env, pc, raised, delimiter, dir_exists, created, ddf, read_ddf,
                    partition_info, missing_report, seen, reported, verdicts >>

\* to_parquet raises while it writes partition i, leaving nothing of that
\* partition or a truncated file; the handler prints and calls sys.exit(1)
WriteError(i, partial) ==
    /\ pc = "write"
    /\ i \in DOMAIN ddf.parts \ written
    /\ partial => Writable
    /\ files' = FilesOnWriteError(files, i, partial)
    /\ emitted' = IF partial THEN emitted \cup {PartName(i)} ELSE emitted
    /\ Fail("write")
    /\ UNCHANGED << env, delimiter, dir_exists, created, ddf, read_ddf,
                    partition_info, missing_report, written, seen, reported,
                    verdicts >>

WriteDone ==
    /\ pc = "write"
    /\ written = DOMAIN ddf.parts
    /\ pc' = "report"
    /\ UNCHANGED << env, raised, delimiter, dir_exists, created, files, ddf,
                    read_ddf, partition_info, missing_report, written, emitted,
                    seen, reported, verdicts >>

\* one turn of the loop of the parquet file report
Report(f) ==
    /\ pc = "report"
    /\ f \in DOMAIN files \ seen
    /\ seen' = seen \cup {f}
    /\ reported' = IF IsParquet(f) THEN Put(reported, f, ReadTable(files[f]))
                   ELSE reported
    /\ UNCHANGED << env, pc, raised, delimiter, dir_exists, created, files, ddf,
                    read_ddf, partition_info, missing_report, written, emitted,
                    verdicts >>

ReportDone ==
    /\ pc = "report"
    /\ seen = DOMAIN files
    /\ seen' = {}
    /\ pc' = "validate"
    /\ UNCHANGED << env, raised, delimiter, dir_exists, created, files, ddf,
                    read_ddf, partition_info, missing_report, written, emitted,
                    reported, verdicts >>

\* one turn of the loop that validates each parquet file
Validate(f) ==
    /\ pc = "validate"
    /\ f \in DOMAIN files \ seen
    /\ seen' = seen \cup {f}
    /\ verdicts' = IF IsParquet(f) THEN Put(verdicts, f, Verdict(files[f]))
                   ELSE verdicts
    /\ UNCHANGED << env, pc, raised, delimiter, dir_exists, created, files, ddf,
                    read_ddf, partition_info, missing_report, written, emitted,
                    reported >>

ValidateDone ==
    /\ pc = "validate"
    /\ seen = DOMAIN files
    /\ pc' = "done"
    /\ UNCHANGED << env, raised, delimiter, dir_exists, created, files, ddf,
                    read_ddf, partition_info, missing_report, written, emitted,
                    seen, reported, verdicts >>

Next ==
    \/ DetectOpenError
    \/ DetectShort
    \/ DetectSniffError
    \/ DetectOk
    \/ MakeDirs
    \/ MakeDirsError
    \/ ReadCsvError
    \/ ReadCsv
    \/ Audit
    \/ Coerce
    \/ Fill
    \/ \E i \in 1 .. MaxParts : WritePartition(i)
    \/ \E i \in 1 .. MaxParts, partial \in BOOLEAN : WriteError(i, partial)
    \/ WriteDone
    \/ \E f \in DOMAIN files : Report(f)
    \/ ReportDone
    \/ \E f \in DOMAIN files : Validate(f)
    \/ ValidateDone

Spec == Init /\ [][Next]_vars

(* ----------------------------- the properties --------------------------- *)

\* the lines of the source that are records, in the order of the file
SrcRuns == SelectSeq(env.lines, LAMBDA r : ~r.x.bad)

\* the frame is final: the fillna calls have run
Filled == pc \in {"write", "report", "validate", "done"}
          \/ (pc = "failed" /\ raised = "write")

\* the partitions were all written
Written == pc \in {"report", "validate", "done"}

Audited == pc \in {"coerce", "fill", "write", "report", "validate", "done"}
           \/ (pc = "failed" /\ raised = "write")

FinalRuns == Flatten(ddf.parts)

ReadRunsOfFrame == Flatten(read_ddf.parts)

\* the files this run wrote that can be opened
OutFiles == {f \in emitted : files[f].ok}

RECURSIVE SumRows(_)
SumRows(names) ==
    IF names = {} THEN 0
    ELSE LET f == CHOOSE g \in names : TRUE
         IN  Count(files[f].data) + SumRows(names \ {f})

ColumnNames(schema) == [k \in DOMAIN schema |-> schema[k][1]]

\* C1: every file the run writes has exactly the eight columns, in the order
\* of keep_columns and not in the order of the source file's header.
C1_SchemaOrder ==
    \A f \in OutFiles : ColumnNames(files[f].schema) = keep_columns

\* the texts of the source files that are decimal numbers, and the number
\* each denotes
DecimalTexts == {T_12_5, T_m3, T_1e3, T_p07}

Denotes(t) ==
    CASE t = T_12_5 -> [tag |-> "float", mant |-> 125, exp |-> -1]
      [] t = T_m3 -> [tag |-> "float", mant |-> -3, exp |-> 0]
      [] t = T_1e3 -> [tag |-> "float", mant |-> 1, exp |-> 3]
      [] t = T_p07 -> [tag |-> "float", mant |-> 7, exp |-> -1]

Sentinel == [tag |-> "float", mant |-> -9999, exp |-> 0]

\* C2: in the final frame every cell of the three numeric columns is the
\* number its text denotes when the text is a decimal number, and -9999 in
\* every other case.
C2_CoerceThenImpute ==
    Filled =>
        \A k \in DOMAIN FinalRuns : \A c \in NumericSet :
            LET t == SrcRuns[k].x.cells[c]
            IN  FinalRuns[k].x[c] = IF t \in DecimalTexts THEN Denotes(t) ELSE Sentinel

\* C3: every cell of the three numeric columns that reaches the output is a
\* finite float (-9999 among them): no text, no NaN and no infinity.
C3_CoercionTotal ==
    /\ Filled => \A k \in DOMAIN FinalRuns : \A c \in NumericSet :
                    FinalRuns[k].x[c].tag = "float"
    /\ \A f \in OutFiles : \A k \in DOMAIN files[f].data : \A c \in NumericSet :
            files[f].data[k].x[c].tag = "float"

\* C4: in the final frame and in the files written from it, no cell of
\* species, countryCode, eventDate, decimalLongitude, decimalLatitude or
\* elevation is missing, and every cell of gbifID and datasetKey is the cell
\* the reader produced, missing or not.
C4_FillsExactlyDesignated ==
    /\ Filled =>
        /\ DOMAIN FinalRuns = DOMAIN ReadRunsOfFrame
        /\ \A k \in DOMAIN FinalRuns :
            /\ \A c \in NumericSet \cup {"species", "countryCode", "eventDate"} :
                    ~IsMissing(FinalRuns[k].x[c])
            /\ \A c \in {"gbifID", "datasetKey"} :
                    FinalRuns[k].x[c] = ReadRunsOfFrame[k].x[c]
    /\ \A f \in OutFiles : \A k \in DOMAIN files[f].data :
            \A c \in KeepSet \ {"gbifID", "datasetKey"} :
                ~IsMissing(files[f].data[k].x[c])

\* a written file holds a row whose gbifID and datasetKey are missing and
\* whose species, latitude and elevation were missing or did not coerce
C4_Witness ==
    /\ pc = "done"
    /\ \E f \in OutFiles : \E k \in DOMAIN files[f].data :
        /\ IsMissing(files[f].data[k].x["gbifID"])
        /\ IsMissing(files[f].data[k].x["datasetKey"])
        /\ files[f].data[k].x["species"] = Unknown
        /\ files[f].data[k].x["elevation"] = Sentinel
        /\ files[f].data[k].x["decimalLatitude"] = Sentinel

\* C5: a source with fewer lines than the sample size ends the run in
\* detect_delimiter with StopIteration, and nothing of the output location
\* has changed; output_dir is never created before a delimiter was detected.
C5_ShortSampleAborts ==
    /\ created => delimiter # ""
    /\ (env.readable /\ FileLines(env) < sample_size) =>
        /\ pc \in {"detect", "failed"}
        /\ pc = "failed" => raised = "StopIteration"
        /\ ~created
        /\ dir_exists = env.dir.exists
        /\ files = env.dir.files

\* a file one line short of the sample has ended the run, and the output
\* directory, absent before the run, is still absent
C5_Witness ==
    /\ pc = "failed"
    /\ raised = "StopIteration"
    /\ FileLines(env) = sample_size - 1
    /\ ~env.dir.exists
    /\ ~dir_exists

\* C6: when ingestion fails (the source cannot be opened, or columns of the
\* schema are missing from the header), the run has failed and nothing has
\* been created or written in the output location.
C6_IngestFailureLeavesNothing ==
    (pc = "failed" /\ (raised = "read" \/ ~env.readable)) =>
        /\ ~created
        /\ dir_exists = env.dir.exists
        /\ files = env.dir.files

\* C7: when the write of a partition fails, the run has failed with the
\* write error reported, and every partition written before is on disk as
\* it was written.
C7_WrittenPartitionsRemain ==
    (pc = "failed" /\ raised = "write") =>
        \A i \in written :
            /\ PartName(i) \in DOMAIN files
            /\ files[PartName(i)].ok
            /\ files[PartName(i)].data = ddf.parts[i]

\* the write failed after a partition had been written
C7_Witness ==
    /\ pc = "failed"
    /\ raised = "write"
    /\ written # {}
    /\ \E i \in DOMAIN ddf.parts \ written :
            PartName(i) \in DOMAIN files /\ files[PartName(i)] = Truncated

ParquetNames == {f \in DOMAIN files : IsParquet(f)}

VerdictsRight ==
    /\ pc \in {"validate", "done"} => DOMAIN reported = ParquetNames
    /\ pc = "done" => DOMAIN verdicts = ParquetNames
    /\ \A f \in DOMAIN verdicts :
            verdicts[f] = IF files[f].ok THEN "valid" ELSE "invalid"
    /\ \A f \in DOMAIN reported : reported[f].error = ~files[f].ok

FilesKept ==
    pc \in {"report", "validate"} => (files' = files /\ dir_exists' = dir_exists)

\* C8: the validator gives a verdict for every parquet file of output_dir,
\* invalid exactly for the files that cannot be opened, whatever the other
\* files are; and no step of the report or of the validation changes a file
\* or the set of files.
C8_ValidatorDiagnosticOnly == []VerdictsRight /\ [][FilesKept]_vars

\* the validation has ended with an invalid file and valid files
C8_Witness ==
    /\ pc = "done"
    /\ \E f \in ParquetNames : verdicts[f] = "invalid"
    /\ \E f \in ParquetNames : verdicts[f] = "valid"
    /\ NotesName \in DOMAIN files

NoBadLine == \A k \in DOMAIN env.lines : ~env.lines[k].x.bad

\* C9: the rows of the files the run wrote are never more than the rows
\* parsed from the source, and are as many once every partition is written
\* (as many as the lines of the source when no line was skipped); each file
\* the run wrote is the file of one partition, and holds that partition's
\* rows.
C9_RowConservation ==
    /\ SumRows(OutFiles) <= Count(SrcRuns)
    /\ Count(SrcRuns) <= Count(env.lines)
    /\ Written =>
        /\ SumRows(OutFiles) = Count(SrcRuns)
        /\ NoBadLine => SumRows(OutFiles) = Count(env.lines)
        /\ Cardinality(emitted) = Len(ddf.parts)
    /\ \A f \in emitted :
        \E i \in DOMAIN ddf.parts :
            /\ f = PartName(i)
            /\ \A j \in DOMAIN ddf.parts : f = PartName(j) => j = i
            /\ files[f].ok => Count(files[f].data) = Count(ddf.parts[i])

\* two partitions were written after a bad line was skipped: the files hold
\* the parsed rows, fewer than the lines of the source
C9_Witness ==
    /\ pc = "done"
    /\ Len(ddf.parts) > 1
    /\ Cardinality(OutFiles) = Len(ddf.parts)
    /\ ~NoBadLine
    /\ SumRows(OutFiles) > 0
    /\ SumRows(OutFiles) < Count(env.lines)

\* the rows of the source whose cell of column c satisfies P
CountWhere(runs, c, P(_)) ==
    Count(SelectSeq(runs, LAMBDA r : P(r.x.cells[c])))

IsNaText(t) == t \in NaValues

\* the text is one of the reader's missing values or does not coerce
FailsCoercion(t) == t \notin DecimalTexts \cup {T_inf, T_minf, T_Infinity}

====
